---- MODULE Spec2Model ----
(***************************************************************************)
(* Model of the batch analysis engine of the Ollama Image Analyzer:        *)
(*   gui/batch_worker.py   BatchAnalysisWorker (the orchestrator thread)   *)
(*   gui/worker.py         AnalysisWorker (the single-image thread)        *)
(*   gui/main_window.py    MainWindow (the controller, GUI thread)         *)
(*   core/ollama_client.py OllamaAnalyzer (persistence operations)         *)
(*   cli/main.py           analyze (the CLI loop)                          *)
(*                                                                         *)
(* Images are numbered 1..MaxItems.  A result of analyze_image is the      *)
(* record [item, success, valid, errs]: valid says whether the response    *)
(* text passes validate_response, errs is the set of attempt numbers       *)
(* whose error message the result's error text contains.                   *)
(***************************************************************************)
EXTENDS Integers, Sequences, FiniteSets, TLC

\* ------------------------------------------------------------------ bounds
MaxItems == 2      \* images in the folder
MaxClicks == 2     \* user inputs (clicks, drops) in one GUI session
MaxOps == 2        \* persistence operations in one SpecPersist behaviour
MaxFiles == 4      \* files of one name family that exist at the start
MaxBlocks == 2     \* blocks of repeated words in a generated text
MaxModels == 2     \* models the server lists

\* The safety limit of _get_numbered_path.
NumberLimit == 9999

Items == 1..MaxItems

\* What one invocation of analyze_image can do, seen from its caller:
\* return success with a sane text, return success with a text the validator
\* rejects, return a failure result, or raise.
Outcomes == {"ok", "garbage", "fail", "raise"}

\* An unreachable endpoint makes the network call of analyze_image fail.
OutcomesWhen(up) == IF up THEN Outcomes ELSE {"fail", "raise"}

\* ------------------------------------------------------------- variables
VARIABLES
    bw,               \* the BatchAnalysisWorker objects created so far, in
                      \* creation order; self.batch_worker is the last one
    sw,               \* the AnalysisWorker objects created so far
    current_worker,   \* self.current_worker: index into sw, 0 = None
    queue,            \* queued signal deliveries to the GUI thread, in order
    analyze_button, import_button, batch_button, cancel_button,
    current_image,    \* image_viewer.current_image (0 = None)
    batch_total_count, batch_completed_count, batch_failed_items,
    batch_start_time, \* "zero" (0.0) or "now" (a reading of time.time())
    batch_metrics_count,
    batch_totals,     \* the five running sums of the batch metrics
    remaining_images, \* last total - completed of the ETA computation
    cfg,              \* overwrite setting and the two artifact check boxes
    reachable,        \* whether the Ollama endpoint answers
    inp, out,         \* argument and outcome of the function applied last
    clicks,           \* user inputs since the initial state
    fs,               \* the files of every image
    writeLog,         \* every file write made so far
    lastOp,           \* the persistence operation called last
    ops               \* persistence operations called directly so far

uiVars == <<analyze_button, import_button, batch_button, cancel_button,
            current_image, batch_total_count, batch_completed_count,
            batch_failed_items, batch_start_time, batch_metrics_count, batch_totals,
            remaining_images, clicks>>
singleVars == <<sw, current_worker>>
fsVars == <<fs, writeLog, lastOp, ops>>
fnVars == <<inp, out>>
vars == <<bw, singleVars, queue, uiVars, cfg, reachable, fnVars, fsVars>>

\* ------------------------------------------------------------ results
\* An Optional[int] field of AnalysisResult.
None == [some |-> FALSE, v |-> 0]

Some(n) == [some |-> TRUE, v |-> n]

\* Truth value of an Optional[int] in an if: None and 0 are false.
Truthy(x) == x.some /\ x.v # 0

\* x or 0
OrZero(x) == IF Truthy(x) THEN x.v ELSE 0

\* The performance counters of an AnalysisResult.
MetricFields == {"eval_count", "prompt_eval_count", "total_duration",
                 "eval_duration", "load_duration"}

NoReport == [f \in MetricFields |-> None]

FullReport == [f \in MetricFields |-> Some(2)]

\* analyze_image copies the counters of the response into a successful
\* result (response.get gives None for a missing one); its failure results
\* carry none.
Reports ==
    { r \in [MetricFields -> {None, Some(0), Some(2)}] :
        \A f \in MetricFields \ {"eval_count"} : r[f] # Some(0) }

ZeroTotals == [f \in MetricFields |-> 0]

\* Lines 1095-1105 of _on_batch_item_finished: the batch averages.
TrackBatchAverages(count, totals, report) ==
    IF Truthy(report["eval_count"])
    THEN [count |-> count + 1,
          totals |-> [f \in MetricFields |-> totals[f] + OrZero(report[f])]]
    ELSE [count |-> count, totals |-> totals]

NoResult == [item |-> 0, success |-> FALSE, valid |-> FALSE, errs |-> {}]

\* AnalysisResult returned by analyze_image for outcome o of attempt n.
\* A failure result carries response "" (which the validator rejects) and
\* the error message of that attempt only.
ResultOf(item, o, n) ==
    IF o = "ok" THEN [item |-> item, success |-> TRUE, valid |-> TRUE, errs |-> {}]
    ELSE IF o = "garbage" THEN [item |-> item, success |-> TRUE, valid |-> FALSE, errs |-> {}]
    ELSE [item |-> item, success |-> FALSE, valid |-> FALSE, errs |-> {n}]

\* error_result built when the retry in the exception handler raises too:
\* error = "Failed twice: {e}; {retry_error}".
FailedTwiceResult(item, e, n) ==
    [item |-> item, success |-> FALSE, valid |-> FALSE, errs |-> {e, n}]

\* A queued delivery.  retry tells whether the sender is a worker created by
\* _retry_failed_items (the slots do not look at the sender).  The
\* item_finished signal carries the result only: a and b of its delivery
\* record how many items the sender has finished and how many it was given,
\* and no slot reads them.
Ev(type, a, b, res) ==
    [type |-> type, a |-> a, b |-> b, res |-> res, retry |-> FALSE]

EvFrom(w, type, a, b, res) == [Ev(type, a, b, res) EXCEPT !.retry = w.retry]

\* The result as the slots of the GUI thread use it: they read result.error
\* only to build display strings, so the queued delivery does not keep it.
Delivered(result) == [result EXCEPT !.errs = {}]

\* ------------------------------------------------------- file system
\* Per image: img is the content kind of the image file itself, imgN the
\* number of files {stem}_1{ext} .. {stem}_imgN{ext}, txt / txtN the text
\* artifact {stem}.txt and its numbered siblings, yml / ymlN the sidecar
\* {name}.yml and its numbered siblings, bak the content of {name}.bak.
FreshFiles == [img |-> "image", imgN |-> 0, txt |-> FALSE, txtN |-> 0,
               yml |-> FALSE, ymlN |-> 0, bak |-> "none"]

W(op, target, result) ==
    [op |-> op, target |-> target, item |-> result.item,
     success |-> result.success, valid |-> result.valid]

Raised(f, kind) == [f |-> f, log |-> {}, raised |-> kind]

\* OllamaAnalyzer.save_result with output_path = {stem}.txt
SaveResult_NoSuccessCheck(f, result, overwrite) ==
    IF ~result.valid THEN Raised(f, "validation")
    ELSE IF ~overwrite /\ f.txt
         THEN [f |-> [f EXCEPT !.txtN = @ + 1],
               log |-> {W("text", "txt_n", result)}, raised |-> "none"]
         ELSE [f |-> [f EXCEPT !.txt = TRUE],
               log |-> {W("text", "txt", result)}, raised |-> "none"]

SaveResult(f, result, overwrite) ==
    IF ~result.success THEN Raised(f, "validation")
    ELSE IF ~result.valid THEN Raised(f, "validation")
    ELSE IF ~overwrite /\ f.txt
         THEN [f |-> [f EXCEPT !.txtN = @ + 1],
               log |-> {W("text", "txt_n", result)}, raised |-> "none"]
         ELSE [f |-> [f EXCEPT !.txt = TRUE],
               log |-> {W("text", "txt", result)}, raised |-> "none"]

\* OllamaAnalyzer.save_yaml_sidecar.  output_path is "default" (None: the
\* sidecar goes to {name}.yml) or "image" (the caller passed the image path).
\* The image file always exists, so with overwrite = FALSE a sidecar aimed at
\* the image path goes to the numbered sibling of the image.
SaveYamlSidecar(f, result, output_path, overwrite) ==
    IF ~result.success THEN Raised(f, "validation")
    ELSE IF ~result.valid THEN Raised(f, "validation")
    ELSE IF output_path = "image"
         THEN IF ~overwrite
              THEN [f |-> [f EXCEPT !.imgN = @ + 1],
                    log |-> {W("sidecar", "img_n", result)}, raised |-> "none"]
              ELSE [f |-> [f EXCEPT !.img = "yaml"],
                    log |-> {W("sidecar", "img", result)}, raised |-> "none"]
         ELSE IF ~overwrite /\ f.yml
              THEN [f |-> [f EXCEPT !.ymlN = @ + 1],
                    log |-> {W("sidecar", "yml_n", result)}, raised |-> "none"]
              ELSE [f |-> [f EXCEPT !.yml = TRUE],
                    log |-> {W("sidecar", "yml", result)}, raised |-> "none"]

\* OllamaAnalyzer.write_to_image_metadata.  The backup is copied inside the
\* try block before Image.open; Image.open raises on a file that is no
\* longer an image, and the handler turns that into IOError.
WriteToImageMetadata_AlwaysCopies(f, result, backup) ==
    IF ~result.success THEN Raised(f, "validation")
    ELSE LET f1 == IF backup THEN [f EXCEPT !.bak = f.img] ELSE f
             l1 == IF backup THEN {W("backup", "bak", result)} ELSE {}
         IN IF f.img = "yaml"
            THEN [f |-> f1, log |-> l1, raised |-> "io"]
            ELSE [f |-> [f1 EXCEPT !.img = "image_meta"],
                  log |-> l1 \cup {W("metadata", "img", result)},
                  raised |-> "none"]

WriteToImageMetadata(f, result, backup) ==
    IF ~result.success THEN Raised(f, "validation")
    ELSE LET doBak == backup /\ f.bak = "none"
             f1 == IF doBak THEN [f EXCEPT !.bak = f.img] ELSE f
             l1 == IF doBak THEN {W("backup", "bak", result)} ELSE {}
         IN IF f.img = "yaml"
            THEN [f |-> f1, log |-> l1, raised |-> "io"]
            ELSE [f |-> [f1 EXCEPT !.img = "image_meta"],
                  log |-> l1 \cup {W("metadata", "img", result)},
                  raised |-> "none"]

\* The save block shared by MainWindow._on_batch_item_finished and
\* MainWindow._on_analysis_finished for a successful result: sidecar if its
\* check box is on, then text, then metadata if its check box is on.  The
\* sidecar is called with result.image_path as output_path, the metadata
\* operation with result.image_path as its (truthy) backup argument.
GuiSave_AllMustSave(f, result, c) ==
    LET y == IF c.yaml THEN SaveYamlSidecar(f, result, "image", c.overwrite)
             ELSE Raised(f, "skipped")
        t == SaveResult(y.f, result, c.overwrite)
        m == IF c.metadata THEN WriteToImageMetadata(t.f, result, TRUE)
             ELSE Raised(t.f, "skipped")
    IN [f |-> m.f, log |-> y.log \cup t.log \cup m.log,
        saved |-> (y.raised \in {"none", "skipped"} /\ t.raised = "none"
                   /\ m.raised \in {"none", "skipped"})]

GuiSave(f, result, c) ==
    LET y == IF c.yaml THEN SaveYamlSidecar(f, result, "image", c.overwrite)
             ELSE Raised(f, "skipped")
        t == SaveResult(y.f, result, c.overwrite)
        m == IF c.metadata THEN WriteToImageMetadata(t.f, result, TRUE)
             ELSE Raised(t.f, "skipped")
    IN [f |-> m.f, log |-> y.log \cup t.log \cup m.log,
        saved |-> (y.raised = "none" \/ t.raised = "none" \/ m.raised = "none")]

\* ------------------------------------------------ BatchAnalysisWorker
\* A worker object: the fields of the class, the position of run() and its
\* locals, and what the run has emitted so far.
\*   retry       whether _retry_failed_items created it
\*   pc          "begin" | "top" | "emit_start" | "call1" | "call2" | "call3"
\*               | "after" | "fault" | "end"
\*   excFrom     attempt whose exception is bound to `e` in the handler
\*               (0 outside the handler: Python unbinds `e` on leaving it)
\*   outs        outcomes of the invocations of the current iteration
\*   calls       analyze_image invocations issued in the current iteration
\*   retries     item_retry emissions of the current iteration
\*   fin         results carried by its item_finished emissions
\*               (the four are cleared when the loop header is reached again)
\*   nStarted    item_started emissions of the run
\*   nFin, nFinOK   item_finished emissions of the run, and those with success
\*   bfEv        payloads of the finished emissions of the run
\*   errEv       number of error emissions of the run
\*   lastEmitted type of the signal emitted last
\*   stopSeen    where run() was when stop() first set the flag
NewWorker(paths) ==
    [image_paths |-> paths, retry |-> FALSE, pc |-> "begin", index |-> 0,
     processed |-> 0, successful |-> 0, should_stop |-> FALSE, excFrom |-> 0,
     outs |-> <<>>, calls |-> 0, retries |-> 0, fin |-> <<>>,
     nStarted |-> 0, nFin |-> 0, nFinOK |-> 0,
     bfEv |-> <<>>, errEv |-> 0, lastEmitted |-> "none",
     stopSeen |-> [pc |-> "none", index |-> 0]]

Workers == 1..Len(bw)
IsRunning(w) == w.pc # "end"         \* QThread.isRunning() after start()
InFlight(w) == w.pc \in {"call1", "call2", "call3"}

\* Loop header and cancellation check: where run() goes from the loop top.
LoopTopNext_NoStopCheck(idx, total, stop) ==
    IF idx >= total THEN "after" ELSE "emit_start"

LoopTopNext(idx, total, stop) ==
    IF idx >= total THEN "after"
    ELSE IF stop THEN "after"
    ELSE "emit_start"

\* Counter updates of the places where an item is accounted.
\* Lines 94-97: the try block.
TryCounts(p, s, success) ==
    [processed |-> p + 1, successful |-> IF success THEN s + 1 ELSE s]

\* Lines 114-120 and 125: the retry inside the exception handler.
HandlerCounts_SkipProcessed(p, s, success) ==
    [processed |-> IF success THEN p ELSE p + 1,
     successful |-> IF success THEN s + 1 ELSE s]

HandlerCounts(p, s, success) ==
    [processed |-> p + 1, successful |-> IF success THEN s + 1 ELSE s]

\* Arguments of finished.emit: line 141 after the loop, line 146 in the
\* handler of a batch-level exception.
FinishedArgs(total, p, s, faulted) ==
    IF faulted THEN <<total, s>> ELSE <<p, s>>

Step(b, w2) == bw' = [bw EXCEPT ![b] = w2]

\* self.started.emit()
WStarted(b) ==
    LET w == bw[b] IN
    /\ w.pc = "begin"
    /\ Step(b, [w EXCEPT !.pc = "top", !.lastEmitted = "started"])
    /\ queue' = Append(queue, EvFrom(w, "started", 0, 0, NoResult))
    /\ UNCHANGED <<singleVars, uiVars, cfg, reachable, fnVars, fsVars>>

\* for ... in enumerate(self.image_paths): if self._should_stop: break
WLoopTop(b) ==
    LET w == bw[b] IN
    /\ w.pc = "top"
    /\ Step(b, [w EXCEPT !.pc = LoopTopNext(w.index, Len(w.image_paths), w.should_stop),
                         !.outs = <<>>, !.calls = 0, !.retries = 0, !.fin = <<>>])
    /\ UNCHANGED <<singleVars, queue, uiVars, cfg, reachable, fnVars, fsVars>>

\* Lines 70-78: item_started.emit, progress.emit, then the first
\* analyze_image call is issued.  Lines 70-73 are outside the inner try: an
\* exception there is a batch-level fault, before or after the emission.
WItemStarted(b) ==
    LET w == bw[b]
        pos == w.index + 1
    IN
    /\ w.pc = "emit_start"
    /\ \E fault \in {"none", "before", "after"} :
        IF fault = "before"
        THEN /\ Step(b, [w EXCEPT !.pc = "fault"])
             /\ UNCHANGED queue
        ELSE /\ Step(b, [w EXCEPT !.pc = IF fault = "none" THEN "call1" ELSE "fault",
                                  !.nStarted = @ + 1,
                                  !.calls = IF fault = "none" THEN 1 ELSE 0,
                                  !.lastEmitted = "item_started"])
             /\ queue' = Append(queue, EvFrom(w, "item_started", pos, Len(w.image_paths),
                                              [NoResult EXCEPT !.item = w.image_paths[pos]]))
    /\ UNCHANGED <<singleVars, uiVars, cfg, reachable, fnVars, fsVars>>

\* item_finished.emit(result) after the counter update, and the step to the
\* next iteration.
FinishItem_ClearsStop(w, result, counts) ==
    [w EXCEPT !.processed = counts.processed,
              !.successful = counts.successful,
              !.fin = Append(@, result),
              !.nFin = @ + 1,
              !.nFinOK = IF result.success THEN @ + 1 ELSE @,
              !.lastEmitted = "item_finished",
              !.excFrom = 0,
              !.index = @ + 1,
              !.should_stop = FALSE,
              !.pc = "top"]

FinishItem(w, result, counts) ==
    [w EXCEPT !.processed = counts.processed,
              !.successful = counts.successful,
              !.fin = Append(@, result),
              !.nFin = @ + 1,
              !.nFinOK = IF result.success THEN @ + 1 ELSE @,
              !.lastEmitted = "item_finished",
              !.excFrom = 0,
              !.index = @ + 1,
              !.pc = "top"]

\* item_retry.emit(...) followed by the next analyze_image invocation.  The
\* slot _on_batch_item_retry only rewrites the status bar, so the delivery is
\* not kept in the queue.
Retry_Abort(w, next, e) ==
    [w EXCEPT !.excFrom = 0, !.pc = "after"]

Retry(w, next, e) ==
    [w EXCEPT !.retries = @ + 1,
              !.calls = @ + 1,
              !.lastEmitted = "item_retry",
              !.excFrom = e,
              !.pc = next]

IsSuccess(o) == o \in {"ok", "garbage"}

\* The worker's reaction to the outcome o of the invocation it waits for:
\* line 78 (call1), line 87 (call2, the retry inside the try block, whose
\* exception lands in the handler of line 105) or line 112 (call3, the retry
\* inside the exception handler).  n is the number of the attempt.
AfterCall(w, o) ==
    LET item == w.image_paths[w.index + 1]
        n == w.calls
    IN
    IF w.pc = "call1" THEN
        IF IsSuccess(o)
        THEN FinishItem(w, ResultOf(item, o, n), TryCounts(w.processed, w.successful, TRUE))
        ELSE IF o = "fail" THEN Retry(w, "call2", w.excFrom)
        ELSE Retry(w, "call3", n)
    ELSE IF w.pc = "call2" THEN
        IF o # "raise"
        THEN FinishItem(w, ResultOf(item, o, n),
                        TryCounts(w.processed, w.successful, IsSuccess(o)))
        ELSE Retry(w, "call3", n)
    ELSE
        IF o # "raise"
        THEN FinishItem(w, ResultOf(item, o, n),
                        HandlerCounts(w.processed, w.successful, IsSuccess(o)))
        ELSE FinishItem(w, FailedTwiceResult(item, w.excFrom, n),
                        HandlerCounts(w.processed, w.successful, FALSE))

WCallReturn(b) ==
    LET w == bw[b] IN
    /\ InFlight(w)
    /\ \E o \in OutcomesWhen(reachable) :
        LET w2 == AfterCall([w EXCEPT !.outs = Append(@, o)], o) IN
        /\ Step(b, w2)
        /\ queue' = IF w2.lastEmitted = "item_finished"
                    THEN Append(queue, EvFrom(w, "item_finished", w2.nFin,
                                              Len(w.image_paths),
                                              Delivered(w2.fin[Len(w2.fin)])))
                    ELSE queue
    /\ UNCHANGED <<singleVars, uiVars, cfg, reachable, fnVars, fsVars>>

\* Lines 135-141 (after the loop) and 143-146 (the outer handler: error.emit,
\* then finished.emit(total, successful)).  The slot _on_batch_error only
\* shows a message box, so its delivery is not kept in the queue.
WEmitFinished(b) ==
    LET w == bw[b]
        faulted == w.pc = "fault"
        args == FinishedArgs(Len(w.image_paths), w.processed, w.successful, faulted)
    IN
    /\ w.pc \in {"after", "fault"}
    /\ Step(b, [w EXCEPT !.pc = "end",
                         !.errEv = IF faulted THEN @ + 1 ELSE @,
                         !.bfEv = Append(@, args),
                         !.lastEmitted = "finished"])
    /\ queue' = Append(queue, EvFrom(w, "finished", args[1], args[2], NoResult))
    /\ UNCHANGED <<singleVars, uiVars, cfg, reachable, fnVars, fsVars>>

\* BatchAnalysisWorker.stop(), called from the GUI thread at any point of the
\* run.
StopWorker_Interrupt(w) ==
    [w EXCEPT !.should_stop = TRUE,
              !.stopSeen = IF w.should_stop THEN @
                           ELSE [pc |-> w.pc, index |-> w.index],
              !.pc = IF InFlight(w) THEN "after" ELSE @]

StopWorker(w) ==
    [w EXCEPT !.should_stop = TRUE,
              !.stopSeen = IF w.should_stop THEN @
                           ELSE [pc |-> w.pc, index |-> w.index]]

\* ------------------------------------------------- AnalysisWorker.run
\* A single-image worker is [item, pc] with pc "inflight" | "done".  Its
\* analyze_image call returns or raises; either way exactly one result is
\* emitted through finished (the slots of started, progress and error change
\* no state that is modelled).
SReturn(k) ==
    /\ sw[k].pc = "inflight"
    /\ \E o \in OutcomesWhen(reachable) :
        queue' = Append(queue, Ev("single_finished", 0, 0,
                                  Delivered(ResultOf(sw[k].item, o, 1))))
    /\ sw' = [sw EXCEPT ![k].pc = "done"]
    /\ UNCHANGED <<bw, current_worker, uiVars, cfg, reachable, fnVars, fsVars>>

\* ---------------------------------------------------------- MainWindow
BatchWorkerRunning == Len(bw) > 0 /\ IsRunning(bw[Len(bw)])

\* Rebinding self.batch_worker / self.current_worker drops the reference to
\* the previous worker object; an object whose run() has returned is gone
\* then, one whose run() is still executing lives on until it returns.
LiveBatchWorkers == SelectSeq(bw, IsRunning)
LiveSingles == SelectSeq(sw, LAMBDA x : x.pc = "inflight")
CurrentWorkerRunning == current_worker # 0 /\ sw[current_worker].pc = "inflight"

\* ImageViewer.load_image: a file that is not an image any more gives a null
\* pixmap and the call returns False without emitting image_loaded; otherwise
\* _on_image_loaded enables the analyze button.
LoadImageEffect(i) ==
    IF fs[i].img = "yaml"
    THEN UNCHANGED <<current_image, analyze_button>>
    ELSE current_image' = i /\ analyze_button' = TRUE

\* MainWindow._import_image (button or File menu action) and
\* ImageViewer.dropEvent.  The menu action and the drop target are never
\* disabled.
LoadImage ==
    /\ clicks < MaxClicks
    /\ clicks' = clicks + 1
    /\ \E i \in Items :
        /\ fs[i].img # "yaml"
        /\ LoadImageEffect(i)
    /\ UNCHANGED <<bw, singleVars, queue, import_button, batch_button, cancel_button,
                   batch_total_count, batch_completed_count, batch_start_time,
                   batch_metrics_count, batch_totals, batch_failed_items,
                   remaining_images, cfg, reachable, fnVars, fsVars>>

\* MainWindow._analyze_image, reached by a click on the enabled analyze
\* button.  With an existing text file it returns unless overwriting is on
\* and the user confirms.
ClickAnalyze ==
    /\ analyze_button
    /\ current_image # 0
    /\ clicks < MaxClicks
    /\ fs[current_image].txt => cfg.overwrite
    /\ analyze_button' = FALSE /\ import_button' = FALSE /\ batch_button' = FALSE
    /\ cancel_button' = TRUE
    /\ sw' = Append(LiveSingles, [item |-> current_image, pc |-> "inflight"])
    /\ current_worker' = Len(LiveSingles) + 1
    /\ clicks' = clicks + 1
    /\ UNCHANGED <<bw, queue, current_image, batch_total_count, batch_completed_count, batch_start_time,
                   batch_metrics_count, batch_totals,
                   batch_failed_items, remaining_images, cfg, reachable, fnVars, fsVars>>

\* The images of the chosen folder that _batch_analyze_folder keeps: those
\* without a text file, or all of them when overwriting is on (and the user
\* confirms).
ImagesToProcess(n) ==
    SelectSeq([i \in 1..n |-> i], LAMBDA i : cfg.overwrite \/ ~fs[i].txt)

\* MainWindow._batch_analyze_folder, reached by a click on the enabled batch
\* button; the folder holds the images 1..n.
ClickBatch ==
    /\ batch_button
    /\ clicks < MaxClicks
    /\ \E n \in Items :
        /\ ImagesToProcess(n) # <<>>
        /\ batch_total_count' = Len(ImagesToProcess(n))
        /\ bw' = Append(LiveBatchWorkers, NewWorker(ImagesToProcess(n)))
    /\ clicks' = clicks + 1
    /\ analyze_button' = FALSE /\ import_button' = FALSE /\ batch_button' = FALSE
    /\ cancel_button' = TRUE
    /\ UNCHANGED <<singleVars, queue, current_image, batch_completed_count, batch_start_time,
                   batch_metrics_count, batch_totals,
                   batch_failed_items, remaining_images, cfg, reachable, fnVars, fsVars>>

\* MainWindow._cancel_analysis, reached by a click on the visible cancel
\* button.
ClickCancel ==
    /\ cancel_button
    /\ clicks < MaxClicks
    /\ clicks' = clicks + 1
    /\ IF CurrentWorkerRunning
       THEN /\ sw' = SubSeq(sw, 1, Len(sw) - 1)
            /\ current_worker' = 0
            /\ analyze_button' = (current_image # 0)
            /\ import_button' = TRUE /\ batch_button' = TRUE
            /\ cancel_button' = FALSE
            /\ UNCHANGED bw
       ELSE /\ BatchWorkerRunning
            /\ bw' = [bw EXCEPT ![Len(bw)] = StopWorker(@)]
            /\ UNCHANGED <<singleVars, analyze_button, import_button, batch_button,
                           cancel_button>>
    /\ UNCHANGED <<queue, current_image, batch_total_count, batch_completed_count, batch_start_time,
                   batch_metrics_count, batch_totals,
                   batch_failed_items, remaining_images, cfg, reachable, fnVars, fsVars>>

\* MainWindow._on_batch_started: resets the metrics, the completed count and
\* the failed-items list (not batch_total_count).
OnBatchStarted ==
    /\ queue # <<>> /\ Head(queue).type = "started"
    /\ queue' = Tail(queue)
    /\ batch_metrics_count' = 0
    /\ batch_totals' = ZeroTotals
    /\ batch_start_time' = "now"
    /\ batch_completed_count' = 0
    /\ batch_failed_items' = <<>>
    /\ UNCHANGED <<bw, singleVars, analyze_button, import_button, batch_button,
                   cancel_button, current_image, batch_total_count,
                   remaining_images, clicks, cfg, reachable, fnVars, fsVars>>

\* remaining_images of MainWindow._update_batch_progress_with_eta: computed
\* only when completed > 0; the ETA is avg_time_per_image * remaining_images.
EtaRemaining(completed, total, old) ==
    IF completed = 0 THEN old ELSE total - completed

\* MainWindow._update_batch_progress_with_eta(completed, total) called
\* elapsed_time after self.batch_start_time: no estimate for completed = 0,
\* otherwise estimated_seconds = (elapsed_time / completed) * (total -
\* completed), kept as a fraction.
UpdateBatchProgressWithEta(completed, total, elapsed_time) ==
    IF completed = 0
    THEN [shown |-> FALSE, num |-> 0, den |-> 1]
    ELSE LET avg_time_per_image == [num |-> elapsed_time, den |-> completed]
             remaining == total - completed
         IN [shown |-> TRUE, num |-> avg_time_per_image.num * remaining,
             den |-> avg_time_per_image.den]

\* MainWindow._on_batch_item_started(current, total, filename, image_path)
OnBatchItemStarted ==
    /\ queue # <<>> /\ Head(queue).type = "item_started"
    /\ queue' = Tail(queue)
    /\ remaining_images' = EtaRemaining(Head(queue).a - 1, Head(queue).b, remaining_images)
    /\ LoadImageEffect(Head(queue).res.item)
    /\ UNCHANGED <<bw, singleVars, import_button, batch_button, cancel_button,
                   batch_total_count, batch_completed_count, batch_start_time,
                   batch_metrics_count, batch_totals, batch_failed_items,
                   clicks, cfg, reachable, fnVars, fsVars>>

\* Body of MainWindow._on_batch_item_finished(result), report being the
\* performance counters of result.
BatchItemFinishedWith(result, report) ==
    LET sv == GuiSave(fs[result.item], result, cfg)
        tracked == TrackBatchAverages(batch_metrics_count, batch_totals, report)
    IN
    /\ batch_completed_count' = batch_completed_count + 1
    /\ batch_metrics_count' = IF result.success THEN tracked.count
                              ELSE batch_metrics_count
    /\ batch_totals' = IF result.success THEN tracked.totals ELSE batch_totals
    /\ remaining_images' = EtaRemaining(batch_completed_count + 1, batch_total_count,
                                        remaining_images)
    /\ IF result.success
       THEN /\ fs' = [fs EXCEPT ![result.item] = sv.f]
            /\ writeLog' = writeLog \cup sv.log
            /\ batch_failed_items' = IF sv.saved THEN batch_failed_items
                                     ELSE Append(batch_failed_items, result.item)
       ELSE /\ batch_failed_items' = Append(batch_failed_items, result.item)
            /\ UNCHANGED <<fs, writeLog>>

\* The counters of the results the model's server returns: all of them for
\* an answer, none for a failure result.
ReportedBy(result) == IF result.success THEN FullReport ELSE NoReport

BatchItemFinishedBody(result) == BatchItemFinishedWith(result, ReportedBy(result))

OnBatchItemFinished ==
    /\ queue # <<>> /\ Head(queue).type = "item_finished"
    /\ queue' = Tail(queue)
    /\ BatchItemFinishedBody(Head(queue).res)
    /\ UNCHANGED <<bw, singleVars, analyze_button, import_button, batch_button,
                   cancel_button, current_image, batch_total_count,
                   batch_start_time, clicks,
                   cfg, reachable, fnVars, lastOp, ops>>

\* MainWindow._on_batch_finished(processed, successful).  With a non-empty
\* failed-items list the summary dialog offers the retry; on acceptance
\* _retry_failed_items runs inside this slot (it creates and starts the new
\* worker over the failed paths and sets the counters), and the slot then
\* goes on to its last three assignments.
OnBatchFinished ==
    /\ queue # <<>> /\ Head(queue).type = "finished"
    /\ queue' = Tail(queue)
    /\ \E retry \in BOOLEAN :
        /\ retry => (batch_failed_items # <<>> /\ clicks < MaxClicks)
        /\ clicks' = IF retry THEN clicks + 1 ELSE clicks
        /\ IF retry
           THEN /\ bw' = Append(LiveBatchWorkers,
                                 [NewWorker(batch_failed_items) EXCEPT !.retry = TRUE])
                /\ batch_failed_items' = <<>>
                /\ analyze_button' = FALSE /\ import_button' = FALSE
                /\ batch_button' = FALSE /\ cancel_button' = TRUE
           ELSE /\ analyze_button' = (current_image # 0)
                /\ import_button' = TRUE /\ batch_button' = TRUE
                /\ cancel_button' = FALSE
                /\ UNCHANGED <<bw, batch_failed_items>>
    /\ batch_total_count' = 0
    /\ batch_completed_count' = 0
    /\ batch_start_time' = "zero"
    /\ UNCHANGED <<singleVars, current_image, batch_metrics_count, batch_totals, remaining_images, cfg, reachable, fnVars, fsVars>>

\* Body of MainWindow._on_analysis_finished(result).
AnalysisFinishedBody(result) ==
    LET sv == GuiSave(fs[result.item], result, cfg) IN
    /\ analyze_button' = TRUE /\ import_button' = TRUE /\ batch_button' = TRUE
    /\ cancel_button' = FALSE
    /\ IF result.success
       THEN /\ fs' = [fs EXCEPT ![result.item] = sv.f]
            /\ writeLog' = writeLog \cup sv.log
       ELSE UNCHANGED <<fs, writeLog>>

OnAnalysisFinished ==
    /\ queue # <<>> /\ Head(queue).type = "single_finished"
    /\ queue' = Tail(queue)
    /\ AnalysisFinishedBody(Head(queue).res)
    /\ UNCHANGED <<bw, singleVars, current_image, batch_total_count,
                   batch_completed_count, batch_start_time,
                   batch_metrics_count, batch_totals, batch_failed_items, remaining_images,
                   clicks, cfg, reachable, fnVars, lastOp, ops>>

\* ------------------------------------------------------------- Init
\* State after MainWindow.__init__: no worker, no image loaded, the analyze
\* button disabled, the cancel button hidden; the folder holds MaxItems
\* images and no artifact yet.  The overwrite setting and the two check
\* boxes are whatever the user configured.
Configs == [overwrite : BOOLEAN, yaml : BOOLEAN, metadata : BOOLEAN]

NoCall == [fn |-> "none"]

NoOp == [op |-> "none", item |-> 0, success |-> FALSE, valid |-> FALSE,
         backup |-> FALSE, raised |-> "none", changed |-> FALSE]

Init ==
    /\ bw = <<>>
    /\ sw = <<>> /\ current_worker = 0
    /\ queue = <<>>
    /\ analyze_button = FALSE /\ import_button = TRUE /\ batch_button = TRUE
    /\ cancel_button = FALSE
    /\ current_image = 0
    /\ batch_total_count = 0 /\ batch_completed_count = 0
    /\ batch_failed_items = <<>> /\ remaining_images = 0
    /\ batch_start_time = "zero" /\ batch_metrics_count = 0
    /\ batch_totals = ZeroTotals
    /\ cfg \in Configs
    /\ reachable \in BOOLEAN
    /\ inp = NoCall /\ out = NoCall
    /\ clicks = 0
    /\ fs = [i \in Items |-> FreshFiles]
    /\ writeLog = {} /\ lastOp = NoOp /\ ops = 0

Next ==
    \/ \E b \in Workers : WStarted(b)
    \/ \E b \in Workers : WLoopTop(b)
    \/ \E b \in Workers : WItemStarted(b)
    \/ \E b \in Workers : WCallReturn(b)
    \/ \E b \in Workers : WEmitFinished(b)
    \/ \E k \in 1..Len(sw) : SReturn(k)
    \/ LoadImage
    \/ ClickAnalyze
    \/ ClickBatch
    \/ ClickCancel
    \/ OnBatchStarted
    \/ OnBatchItemStarted
    \/ OnBatchItemFinished
    \/ OnBatchFinished
    \/ OnAnalysisFinished

Spec == Init /\ [][Next]_vars

\* ------------------------------------------------ overlapping batches
\* The GUI in the state it is in after this session: a folder batch over
\* image 1 is started; once its item_started has been handled (which loads
\* the image and enables the analyze button) the user clicks Analyze; the
\* single analysis fails and _on_analysis_finished re-enables the batch
\* button; the user starts a second folder batch over image 1 while the
\* first worker still waits for its first analyze_image call.  One more
\* user input is followed from here.
InitOverlap ==
    /\ bw = <<[NewWorker(<<1>>) EXCEPT !.pc = "call1", !.calls = 1, !.nStarted = 1,
                                      !.lastEmitted = "item_started"],
              NewWorker(<<1>>)>>
    /\ sw = <<[item |-> 1, pc |-> "done"]>> /\ current_worker = 1
    /\ queue = <<>>
    /\ analyze_button = FALSE /\ import_button = FALSE /\ batch_button = FALSE
    /\ cancel_button = TRUE
    /\ current_image = 1
    /\ batch_total_count = 1 /\ batch_completed_count = 0
    /\ batch_failed_items = <<>> /\ remaining_images = 0
    /\ batch_start_time = "now" /\ batch_metrics_count = 0
    /\ batch_totals = ZeroTotals
    /\ cfg = [overwrite |-> TRUE, yaml |-> FALSE, metadata |-> FALSE]
    /\ reachable \in BOOLEAN
    /\ inp = NoCall /\ out = NoCall
    /\ clicks = MaxClicks - 1
    /\ fs = [i \in Items |-> FreshFiles]
    /\ writeLog = {} /\ lastOp = NoOp /\ ops = 0

\* From there on the user only answers the summary dialogs and may cancel.
NextOverlap ==
    \/ \E b \in Workers : WStarted(b)
    \/ \E b \in Workers : WLoopTop(b)
    \/ \E b \in Workers : WItemStarted(b)
    \/ \E b \in Workers : WCallReturn(b)
    \/ \E b \in Workers : WEmitFinished(b)
    \/ ClickCancel
    \/ OnBatchStarted
    \/ OnBatchItemStarted
    \/ OnBatchItemFinished
    \/ OnBatchFinished

SpecOverlap == InitOverlap /\ [][NextOverlap]_vars

\* ------------------------------------------- the worker run on its own
\* One BatchAnalysisWorker constructed over the images 1..n and started; the
\* controller may call stop() at any point of the run.  Nothing consumes the
\* queue here, so it is the ordered record of the deliveries of the run.
InitWorker ==
    /\ \E n \in Items : bw = <<NewWorker([i \in 1..n |-> i])>>
    /\ sw = <<>> /\ current_worker = 0
    /\ queue = <<>>
    /\ analyze_button = FALSE /\ import_button = FALSE /\ batch_button = FALSE
    /\ cancel_button = TRUE
    /\ current_image = 0
    /\ batch_total_count = Len(bw[1].image_paths) /\ batch_completed_count = 0
    /\ batch_failed_items = <<>> /\ remaining_images = 0
    /\ batch_start_time = "zero" /\ batch_metrics_count = 0
    /\ batch_totals = ZeroTotals
    /\ cfg = [overwrite |-> TRUE, yaml |-> FALSE, metadata |-> FALSE]
    /\ reachable \in BOOLEAN
    /\ inp = NoCall /\ out = NoCall
    /\ clicks = 0
    /\ fs = [i \in Items |-> FreshFiles]
    /\ writeLog = {} /\ lastOp = NoOp /\ ops = 0

\* BatchAnalysisWorker.stop() arriving while the thread runs.
Stop ==
    /\ \E b \in Workers :
        /\ IsRunning(bw[b])
        /\ ~bw[b].should_stop
        /\ Step(b, StopWorker(bw[b]))
    /\ UNCHANGED <<singleVars, queue, uiVars, cfg, reachable, fnVars, fsVars>>

NextWorker ==
    \/ \E b \in Workers : WStarted(b)
    \/ \E b \in Workers : WLoopTop(b)
    \/ \E b \in Workers : WItemStarted(b)
    \/ \E b \in Workers : WCallReturn(b)
    \/ \E b \in Workers : WEmitFinished(b)
    \/ Stop

SpecWorker == InitWorker /\ [][NextWorker]_vars

\* The worker thread is scheduled as long as run() has not returned, and
\* every analyze_image invocation comes back (the client call returns or
\* raises); the controller is under no obligation to call stop().
WorkerProgress ==
    \E b \in Workers :
        \/ WStarted(b) \/ WLoopTop(b) \/ WItemStarted(b)
        \/ WCallReturn(b) \/ WEmitFinished(b)

SpecWorkerLive == SpecWorker /\ WF_vars(WorkerProgress)

\* ------------------------------------------ the persistence layer on its own
\* Any caller may hand any AnalysisResult to the three operations; the GUI
\* slots and the CLI loop hand over what analyze_image returned.
AnyResults(i) == { [item |-> i, success |-> sc, valid |-> v, errs |-> {}] :
                   sc \in BOOLEAN, v \in BOOLEAN }
ReturnedResults(i) ==
    { Delivered(ResultOf(i, o, 1)) : o \in OutcomesWhen(reachable) \ {"raise"} }

\* One call of an operation on image i with outcome r; changed tells whether
\* the call wrote any file.
ApplyB(i, r, name, result, backup) ==
    /\ ops < MaxOps
    /\ ops' = ops + 1
    /\ fs' = [fs EXCEPT ![i] = r.f]
    /\ writeLog' = writeLog \cup r.log
    /\ lastOp' = [op |-> name, item |-> i, success |-> result.success,
                  valid |-> result.valid, backup |-> backup,
                  raised |-> r.raised, changed |-> (r.f # fs[i] \/ r.log # {})]
    /\ UNCHANGED <<bw, singleVars, queue, uiVars, cfg, reachable, fnVars>>

Apply(i, r, name, result) == ApplyB(i, r, name, result, FALSE)

CallSaveResult ==
    \E i \in Items : \E result \in AnyResults(i) : \E overwrite \in BOOLEAN :
        Apply(i, SaveResult(fs[i], result, overwrite), "text", result)

CallSaveYamlSidecar ==
    \E i \in Items : \E result \in AnyResults(i) : \E overwrite \in BOOLEAN :
    \E output_path \in {"default", "image"} :
        Apply(i, SaveYamlSidecar(fs[i], result, output_path, overwrite), "sidecar", result)

CallWriteToImageMetadata ==
    \E i \in Items : \E result \in AnyResults(i) : \E backup \in BOOLEAN :
        ApplyB(i, WriteToImageMetadata(fs[i], result, backup), "metadata", result, backup)

\* MainWindow._on_batch_item_finished handed a result of analyze_image.
SlotBatchItemFinished ==
    /\ ops < MaxOps
    /\ ops' = ops + 1
    /\ \E i \in Items : \E result \in ReturnedResults(i) :
        /\ BatchItemFinishedBody(result)
        /\ lastOp' = [op |-> "gui_batch", item |-> i, success |-> result.success,
                      valid |-> result.valid, backup |-> TRUE, raised |-> "none",
                      changed |-> (fs' # fs \/ writeLog' # writeLog)]
    /\ UNCHANGED <<bw, singleVars, queue, analyze_button, import_button, batch_button,
                   cancel_button, current_image, batch_total_count,
                   batch_start_time, clicks, cfg, reachable, fnVars>>

\* MainWindow._on_analysis_finished handed a result of analyze_image.
SlotAnalysisFinished ==
    /\ ops < MaxOps
    /\ ops' = ops + 1
    /\ \E i \in Items : \E result \in ReturnedResults(i) :
        /\ AnalysisFinishedBody(result)
        /\ lastOp' = [op |-> "gui_single", item |-> i, success |-> result.success,
                      valid |-> result.valid, backup |-> TRUE, raised |-> "none",
                      changed |-> (fs' # fs \/ writeLog' # writeLog)]
    /\ UNCHANGED <<bw, singleVars, queue, current_image, batch_total_count,
                   batch_completed_count, batch_start_time,
                   batch_metrics_count, batch_totals, batch_failed_items, remaining_images,
                   clicks, cfg, reachable, fnVars>>

\* ------------------------------------------------ the metrics aggregator
\* The batch slots handed the deliveries of one worker, the results carrying
\* any combination of performance counters.  inp keeps the delivery handled
\* last.
InitMetrics ==
    /\ Init
    /\ cfg = [overwrite |-> TRUE, yaml |-> FALSE, metadata |-> FALSE]
    /\ reachable

\* MainWindow._on_batch_started
SlotBatchStarted ==
    /\ ops < MaxOps
    /\ ops' = ops + 1
    /\ batch_metrics_count' = 0
    /\ batch_totals' = ZeroTotals
    /\ batch_start_time' = "now"
    /\ batch_completed_count' = 0
    /\ batch_failed_items' = <<>>
    /\ inp' = [fn |-> "started"]
    /\ UNCHANGED <<bw, singleVars, queue, analyze_button, import_button, batch_button,
                   cancel_button, current_image, batch_total_count,
                   remaining_images, clicks, cfg, reachable, out, fs, writeLog, lastOp>>

\* MainWindow._on_batch_item_finished
SlotItemFinishedWithCounters ==
    /\ ops < MaxOps
    /\ ops' = ops + 1
    /\ \E result \in ReturnedResults(1) :
       \E report \in (IF result.success THEN Reports ELSE {NoReport}) :
        /\ BatchItemFinishedWith(result, report)
        /\ inp' = [fn |-> "item_finished", success |-> result.success,
                   report |-> report]
    /\ UNCHANGED <<bw, singleVars, queue, analyze_button, import_button, batch_button,
                   cancel_button, current_image, batch_total_count,
                   batch_start_time, clicks, cfg, reachable, out, lastOp>>

NextMetrics ==
    \/ SlotBatchStarted
    \/ SlotItemFinishedWithCounters

SpecMetrics == InitMetrics /\ [][NextMetrics]_vars

\* OllamaAnalyzer.test_connection: client.list() answered.
TestConnection == reachable

\* One iteration of the loop of the CLI command analyze (cli/main.py), which
\* is reached only when the connection test at the top of the command
\* passed: the image is skipped when --no-overwrite is given and its text file exists;
\* otherwise it is analyzed and a successful result is saved.
CliAnalyzeItem ==
    \E i \in Items : \E result \in ReturnedResults(i) : \E no_overwrite \in BOOLEAN :
        /\ TestConnection
        /\ ~(no_overwrite /\ fs[i].txt)
        /\ Apply(i, IF result.success
                    THEN SaveResult(fs[i], result, ~no_overwrite)
                    ELSE Raised(fs[i], "none"),
                 "cli", result)

NextPersist ==
    \/ CallSaveResult
    \/ CallSaveYamlSidecar
    \/ CallWriteToImageMetadata
    \/ SlotBatchItemFinished
    \/ SlotAnalysisFinished
    \/ CliAnalyzeItem

SpecPersist == Init /\ [][NextPersist]_vars

\* ------------------------------------------------- functions on their own
\* OllamaAnalyzer._get_numbered_path(P).  The directory is the set of the
\* numbers whose file exists: 0 stands for P itself, n for {stem}_{n}{ext}.
\* The call is in one of the states
\*   [fn, at |-> "loop", counter]     at the top of the while loop
\*   [fn, at |-> "done", raised, value]
Returned(n) == [fn |-> "numbered_path", at |-> "done", raised |-> FALSE, value |-> n]
RaisedIOError == [fn |-> "numbered_path", at |-> "done", raised |-> TRUE, value |-> 0]
AtLoop(counter) == [fn |-> "numbered_path", at |-> "loop", counter |-> counter]

\* Entry of the function: the test of original_path.exists().
NumberedEntry(existing) ==
    IF 0 \notin existing THEN Returned(0) ELSE AtLoop(1)

\* One iteration of the while loop.
NumberedStep_NoExistsTest(existing, counter) == Returned(counter)

NumberedStep(existing, counter) ==
    IF counter \notin existing THEN Returned(counter)
    ELSE IF counter + 1 > NumberLimit THEN RaisedIOError
    ELSE AtLoop(counter + 1)

\* Directories handed to the function: every choice among P, _1 .. up to
\* MaxFiles - 1, and the crowded ones where P and _1 .. _n all exist.
PathInputs ==
    { [fn |-> "numbered_path", existing |-> e] : e \in SUBSET (0..(MaxFiles - 1)) }
    \cup { [fn |-> "numbered_path", existing |-> 0..n] :
             n \in {NumberLimit - 1, NumberLimit, NumberLimit + 1} }
    \cup { [fn |-> "numbered_path", existing |-> (0..NumberLimit) \ {n}] :
             n \in {1, NumberLimit - 1} }

\* OllamaAnalyzer.SUPPORTED_FORMATS and is_supported_image, which lowers the
\* suffix before the membership test.
SUPPORTED_FORMATS == {".jpg", ".jpeg", ".png", ".webp", ".gif", ".bmp", ".tiff"}

Suffixes == {".jpg", ".JPG", ".Png", ".tiff", ".txt", ".yml", ".bak", ""}

LowerSuffix(x) ==
    IF x = ".JPG" THEN ".jpg" ELSE IF x = ".Png" THEN ".png" ELSE x

IsSupportedImage(suffix) == LowerSuffix(suffix) \in SUPPORTED_FORMATS

\* What client.chat does when it is called: answer with a message, answer
\* with a body that has no message content, or raise.
ChatOutcomes == {"answer", "malformed", "fault"}

AnalysisDone(success, error, called) ==
    [fn |-> "analyze_image", at |-> "done", raised |-> FALSE,
     success |-> success, error |-> error, called |-> called]

\* OllamaAnalyzer.analyze_image on a file that exists or not, has the given
\* suffix, with the given behaviour of the network call.  error is the
\* prefix of the error message ("" for None).
AnalyzeImage_SuffixFirst(exists, suffix, chat) ==
    IF ~IsSupportedImage(suffix)
    THEN AnalysisDone(FALSE, "Unsupported image format", FALSE)
    ELSE IF ~exists THEN AnalysisDone(FALSE, "Image file not found", FALSE)
    ELSE IF chat = "answer" THEN AnalysisDone(TRUE, "", TRUE)
    ELSE AnalysisDone(FALSE, "Analysis failed", TRUE)

AnalyzeImage(exists, suffix, chat) ==
    IF ~exists THEN AnalysisDone(FALSE, "Image file not found", FALSE)
    ELSE IF ~IsSupportedImage(suffix)
    THEN AnalysisDone(FALSE, "Unsupported image format", FALSE)
    ELSE IF chat = "answer" THEN AnalysisDone(TRUE, "", TRUE)
    ELSE AnalysisDone(FALSE, "Analysis failed", TRUE)

AnalyzeInputs ==
    { [fn |-> "analyze_image", exists |-> e, suffix |-> x, chat |-> c] :
        e \in BOOLEAN, x \in Suffixes, c \in ChatOutcomes }

\* ---- validate_response ----
\* A text is the sequence of its characters.
Letters == {"a", "b", "c", "d", "e", "f", "g", "h", "i", "j", "x", "A"}

isalnum(c) == c \in Letters

isspace(c) == c \in {" ", "\n"}

lower(c) == IF c = "A" THEN "a" ELSE c

\* str.strip(): the text between its first and its last non-blank character.
Blank(s) == \A i \in 1..Len(s) : isspace(s[i])

FirstChar(s) ==
    CHOOSE i \in 1..Len(s) : ~isspace(s[i]) /\ \A k \in 1..(i - 1) : isspace(s[k])

LastChar(s) ==
    CHOOSE i \in 1..Len(s) :
        ~isspace(s[i]) /\ \A k \in (i + 1)..Len(s) : isspace(s[k])

strip(s) == IF Blank(s) THEN << >> ELSE SubSeq(s, FirstChar(s), LastChar(s))

\* str.split(): the maximal runs of non-blank characters, by the index of
\* their first character.
WordStarts(s) ==
    {i \in 1..Len(s) : ~isspace(s[i]) /\ (i = 1 \/ isspace(s[i - 1]))}

WordEnd(s, i) ==
    CHOOSE j \in i..Len(s) :
        /\ j = Len(s) \/ isspace(s[j + 1])
        /\ \A k \in i..j : ~isspace(s[k])

WordLen(s, i) == WordEnd(s, i) - i + 1

\* sum(len(w) for w in meaningful_words): the characters of the words longer
\* than one character.
MeaningfulWords(s) == {i \in WordStarts(s) : WordLen(s, i) > 1}

MeaningfulChars(s) ==
    {k \in 1..Len(s) :
        /\ ~isspace(s[k])
        /\ \/ k > 1 /\ ~isspace(s[k - 1])
           \/ k < Len(s) /\ ~isspace(s[k + 1])}

NormalChars(s) == {k \in 1..Len(s) : isalnum(s[k]) \/ isspace(s[k])}

\* set(w.lower() for w in words)
UniqueWords(s) ==
    LET low == [k \in 1..Len(s) |-> lower(s[k])]
    IN {SubSeq(low, i, WordEnd(s, i)) : i \in WordStarts(s)}

Verdict(valid, reason) ==
    [fn |-> "validate_response", at |-> "done", raised |-> FALSE,
     valid |-> valid, reason |-> reason]

min_chars == 20
max_words == 10000

\* The checks on the stripped text, in the order of the code.  Ratios are
\* compared in integers: a / n < 0.7 is 10 * a < 7 * n, u / n < 0.3 is
\* 10 * u < 3 * n, and a mean below 2.0 is a sum below twice the count.
CheckStripped_NoLengthCheck(r) ==
    LET word_count == Cardinality(WordStarts(r))
    IN IF word_count > max_words
       THEN Verdict(FALSE, "Response too long")
       ELSE IF /\ MeaningfulWords(r) # {}
               /\ Cardinality(MeaningfulChars(r)) < 2 * Cardinality(MeaningfulWords(r))
       THEN Verdict(FALSE, "Response appears to be gibberish")
       ELSE IF 10 * Cardinality(NormalChars(r)) < 7 * Len(r)
       THEN Verdict(FALSE, "Response contains excessive special characters")
       ELSE IF word_count >= 10 /\ 10 * Cardinality(UniqueWords(r)) < 3 * word_count
       THEN Verdict(FALSE, "Response contains excessive repetition")
       ELSE Verdict(TRUE, "")

CheckStripped(r) ==
    IF Len(r) < min_chars THEN Verdict(FALSE, "Response too short")
    ELSE LET word_count == Cardinality(WordStarts(r))
    IN IF word_count > max_words
       THEN Verdict(FALSE, "Response too long")
       ELSE IF /\ MeaningfulWords(r) # {}
               /\ Cardinality(MeaningfulChars(r)) < 2 * Cardinality(MeaningfulWords(r))
       THEN Verdict(FALSE, "Response appears to be gibberish")
       ELSE IF 10 * Cardinality(NormalChars(r)) < 7 * Len(r)
       THEN Verdict(FALSE, "Response contains excessive special characters")
       ELSE IF word_count >= 10 /\ 10 * Cardinality(UniqueWords(r)) < 3 * word_count
       THEN Verdict(FALSE, "Response contains excessive repetition")
       ELSE Verdict(TRUE, "")

ValidateResponse_RepetitionFirst(response) ==
    IF Len(response) = 0 \/ Blank(response)
    THEN Verdict(FALSE, "Response is empty")
    ELSE LET r == strip(response)
             word_count == Cardinality(WordStarts(r))
         IN IF word_count >= 10 /\ 10 * Cardinality(UniqueWords(r)) < 3 * word_count
            THEN Verdict(FALSE, "Response contains excessive repetition")
            ELSE CheckStripped(r)

ValidateResponse(response) ==
    IF Len(response) = 0 \/ Blank(response)
    THEN Verdict(FALSE, "Response is empty")
    ELSE CheckStripped(strip(response))

\* Texts: blank padding, then blocks of one word repeated, all words one
\* space apart, then blank padding.
Repeat(w, times) ==
    [i \in 1..(times * (Len(w) + 1) - 1) |->
        IF i % (Len(w) + 1) = 0 THEN " " ELSE w[i % (Len(w) + 1)]]

Pad(n, c) == [i \in 1..n |-> c]

RECURSIVE JoinBlocks(_)
JoinBlocks(bs) ==
    IF bs = << >> THEN << >>
    ELSE LET h == Repeat(bs[1].w, bs[1].times)
             rest == JoinBlocks(Tail(bs))
         IN IF rest = << >> THEN h ELSE h \o <<" ">> \o rest

MakeText(lead, bs, trail) == Pad(lead, "\n") \o JoinBlocks(bs) \o Pad(trail, " ")

Word(w, times) == [w |-> w, times |-> times]

Abcd == <<"a", "b", "c", "d">>

Words ==
    { <<"x">>, <<"a", "b">>, <<"A", "b">>, <<"!", "!">>, Abcd,
      <<"a", "b", "c", "d", "e", "f", "!", "!", "!", "!">> }

Times == {1, 3, 10}

BlockLists ==
    UNION { [1..n -> {Word(w, t) : w \in Words, t \in Times}] : n \in 0..MaxBlocks }

TenWords ==
    MakeText(0, << Word(<<"a", "a">>, 1), Word(<<"b", "b">>, 1), Word(<<"c", "c">>, 1),
                   Word(<<"d", "d">>, 1), Word(<<"e", "e">>, 1), Word(<<"f", "f">>, 1),
                   Word(<<"g", "g">>, 1), Word(<<"h", "h">>, 1), Word(<<"i", "i">>, 1),
                   Word(<<"j", "j">>, 1) >>, 0)

ExampleTexts ==
    { TenWords,
      MakeText(0, << Word(<<"x">>, max_words + 1) >>, 0),
      MakeText(1, << Word(<<"x">>, max_words) >>, 1),
      MakeText(0, << Word(<<"a", "a">>, 4), Word(<<"b", "b">>, 3), Word(<<"c", "c">>, 3) >>, 0),
      MakeText(0, << Word(<<"a", "b">>, 4), Word(<<"A", "b">>, 4), Word(<<"c", "d">>, 1),
                     Word(<<"e", "f">>, 1) >>, 0),
      Pad(14, "a") \o Pad(6, "!"),
      Pad(13, "a") \o Pad(7, "!") }

ValidateInputs ==
    { [fn |-> "validate_response", text |-> t] :
        t \in { MakeText(lead, bs, trail) :
                  lead \in {0, 8}, bs \in BlockLists, trail \in {0, 1} }
              \cup ExampleTexts }

\* ---- AnalysisResult.tokens_per_second ----
\* A float is kept as a fraction num / den.
RECURSIVE Gcd(_, _)
Gcd(a, b) == IF b = 0 THEN a ELSE Gcd(b, a % b)

Fraction(num, den) == [some |-> TRUE, num |-> num \div Gcd(num, den),
                       den |-> den \div Gcd(num, den)]

NoFraction == [some |-> FALSE, num |-> 0, den |-> 1]

NanosPerSecond == 1000000000

TokensPerSecond_ZeroDefault(eval_count, eval_duration) ==
    IF Truthy(eval_duration)
    THEN LET seconds == Fraction(eval_duration.v, NanosPerSecond)
         IN Fraction(eval_count.v * seconds.den, seconds.num)
    ELSE NoFraction

\* if self.eval_count and self.eval_duration:
\*     return self.eval_count / (self.eval_duration / 1_000_000_000)
\* return None
TokensPerSecond(eval_count, eval_duration) ==
    IF Truthy(eval_count) /\ Truthy(eval_duration)
    THEN LET seconds == Fraction(eval_duration.v, NanosPerSecond)
         IN Fraction(eval_count.v * seconds.den, seconds.num)
    ELSE NoFraction

Counters == {None} \cup {Some(n) : n \in {0, 1, 100}}

Durations == {None} \cup {Some(n) : n \in {0, 500000000, 1000000000, 2000000000}}

MetricInputs ==
    { [fn |-> "tokens_per_second", eval_count |-> c, eval_duration |-> d] :
        c \in Counters, d \in Durations }

\* ---- save_result and save_yaml_sidecar on one family of paths ----
\* files maps the paths of the family that exist to their content: 0 is the
\* output path P, n is {stem}_{n}{ext}.  The two operations differ in the
\* default output path and in what they write; the steps below are the
\* same in both.
SaveAt(at, counter, path, files) ==
    [fn |-> "save", at |-> at, raised |-> "none", counter |-> counter,
     path |-> path, files |-> files]

SaveFailed(kind, files) ==
    [fn |-> "save", at |-> "done", raised |-> kind, counter |-> 0,
     path |-> 0, files |-> files]

\* Entry: the success test, the validation, and the choice of the path.
SaveBegin_IgnoresOverwrite(files, result, overwrite) ==
    IF ~result.success THEN SaveFailed("ValueError", files)
    ELSE IF ~result.valid THEN SaveFailed("ValueError", files)
    ELSE SaveAt("write", 0, 0, files)

SaveBegin(files, result, overwrite) ==
    IF ~result.success THEN SaveFailed("ValueError", files)
    ELSE IF ~result.valid THEN SaveFailed("ValueError", files)
    ELSE IF ~overwrite /\ 0 \in DOMAIN files
    THEN LET n == NumberedEntry(DOMAIN files)
         IN IF n.at = "loop" THEN SaveAt("loop", n.counter, 0, files)
            ELSE SaveAt("write", 0, n.value, files)
    ELSE SaveAt("write", 0, 0, files)

\* One iteration of the loop of _get_numbered_path called from the save.
SaveNumbered(files, counter) ==
    LET n == NumberedStep(DOMAIN files, counter)
    IN IF n.at = "loop" THEN SaveAt("loop", n.counter, 0, files)
       ELSE IF n.raised THEN SaveFailed("IOError", files)
       ELSE SaveAt("write", 0, n.value, files)

\* open(output_path, "w") and the write, which succeed or raise.
SaveWrite(files, path, ok) ==
    IF ok
    THEN [SaveAt("done", 0, path, files) EXCEPT
            !.files = [p \in DOMAIN files \cup {path} |->
                         IF p = path THEN "new" ELSE files[p]]]
    ELSE SaveFailed("IOError", files)

SaveInputs ==
    { [fn |-> op, files |-> [p \in e |-> "old"], overwrite |-> ow,
       result |-> [success |-> sc, valid |-> v]] :
        op \in {"save_result", "save_yaml_sidecar"},
        e \in SUBSET (0..(MaxFiles - 1)), ow \in BOOLEAN,
        sc \in BOOLEAN, v \in BOOLEAN }
    \cup { [fn |-> "save_result", files |-> [p \in 0..NumberLimit |-> "old"],
            overwrite |-> FALSE, result |-> [success |-> TRUE, valid |-> TRUE]] }

\* ---- the text artifacts of one batch ----
\* The images of a folder in the order of sorted(set(image_paths)); a path
\* of a text artifact is its directory, its stem and the number N of
\* {stem}_{N}.txt (0 for {stem}.txt).
FolderImages ==
    << [dir |-> "folder", stem |-> "other", ext |-> ".jpg"],
       [dir |-> "folder", stem |-> "photo", ext |-> ".jpg"],
       [dir |-> "folder", stem |-> "photo", ext |-> ".png"] >>

\* base_output = Path(output_directory) / image_path.stem, or
\* image_path.with_suffix(""); the text goes to str(base_output) + ".txt".
TextOutputPath(image, output_directory) ==
    [dir |-> IF output_directory THEN "output" ELSE image.dir,
     stem |-> image.stem, n |-> 0]

\* _get_numbered_path run to its end.
RECURSIVE NumberedFrom(_, _)
NumberedFrom(existing, counter) ==
    LET r == NumberedStep(existing, counter)
    IN IF r.at = "loop" THEN NumberedFrom(existing, r.counter) ELSE r

GetNumberedPath(existing) ==
    LET r == NumberedEntry(existing)
    IN IF r.at = "loop" THEN NumberedFrom(existing, r.counter) ELSE r

\* The path save_result writes, given the text files that exist.
TextTarget(files, image, output_directory, overwrite) ==
    LET P == TextOutputPath(image, output_directory)
        existing == {q.n : q \in {q \in DOMAIN files : q.dir = P.dir /\ q.stem = P.stem}}
    IN IF ~overwrite /\ 0 \in existing
       THEN [P EXCEPT !.n = GetNumberedPath(existing).value]
       ELSE P

\* files after the text of the k-th image of the batch was written to target.
WriteText(files, target, k) ==
    [q \in DOMAIN files \cup {target} |-> IF q = target THEN k ELSE files[q]]

BatchInputs ==
    { [fn |-> "batch_texts", images |-> SelectSeq(FolderImages, LAMBDA x : x \in chosen),
       output_directory |-> od, overwrite |-> ow] :
        chosen \in SUBSET {FolderImages[i] : i \in 1..Len(FolderImages)} \ {{}},
        od \in BOOLEAN, ow \in BOOLEAN }

\* ---- get_vision_models ----
\* A model name is the sequence of its characters.
vision_keywords ==
    << <<"l", "l", "a", "v", "a">>,
       <<"b", "a", "k", "l", "l", "a", "v", "a">>,
       <<"m", "o", "o", "n", "d", "r", "e", "a", "m">>,
       <<"v", "i", "s", "i", "o", "n">>,
       <<"c", "l", "i", "p">> >>

\* str.lower() on the characters of the names below.
LowerChar(c) ==
    CASE c = "L" -> "l" [] c = "A" -> "a" [] c = "V" -> "v" [] c = "C" -> "c"
      [] c = "I" -> "i" [] c = "P" -> "p" [] OTHER -> c

LowerName(name) == [k \in 1..Len(name) |-> LowerChar(name[k])]

\* keyword in text
Contains(keyword, text) ==
    \E i \in 1..(Len(text) - Len(keyword) + 1) :
        SubSeq(text, i, i + Len(keyword) - 1) = keyword

IsVisionModel_CaseSensitive(model) ==
    \E k \in 1..Len(vision_keywords) : Contains(vision_keywords[k], model)

\* any(keyword in model.lower() for keyword in vision_keywords)
IsVisionModel(model) ==
    \E k \in 1..Len(vision_keywords) : Contains(vision_keywords[k], LowerName(model))

\* get_vision_models given what list_models does: it returns names or raises
\* ConnectionError.
GetVisionModels(listing) ==
    IF ~listing.ok THEN << >>
    ELSE LET all_models == listing.models
             vision_models == SelectSeq(all_models, IsVisionModel)
         IN IF vision_models = << >> THEN all_models ELSE vision_models

ModelNames ==
    { <<"l", "l", "a", "v", "a", ":", "7", "b">>,
      <<"L", "L", "a", "V", "a">>,
      <<"b", "a", "k", "l", "l", "a", "v", "a">>,
      <<"m", "o", "o", "n", "d", "r", "e", "a", "m", "2">>,
      <<"l", "l", "a", "m", "a", "-", "V", "i", "s", "i", "o", "n">>,
      <<"C", "L", "I", "P">>,
      <<"m", "i", "s", "t", "r", "a", "l">>,
      <<"l", "a", "v", "a">>,
      <<"q", "w", "e", "n">> }

ModelInputs ==
    { [fn |-> "get_vision_models", ok |-> ok, models |-> m] :
        ok \in BOOLEAN, m \in UNION { [1..n -> ModelNames] : n \in 0..MaxModels } }

FnInputs ==
    PathInputs \cup AnalyzeInputs \cup ValidateInputs \cup MetricInputs
    \cup SaveInputs \cup BatchInputs \cup ModelInputs

InitFn ==
    /\ bw = <<>>
    /\ sw = <<>> /\ current_worker = 0
    /\ queue = <<>>
    /\ analyze_button = FALSE /\ import_button = TRUE /\ batch_button = TRUE
    /\ cancel_button = FALSE
    /\ current_image = 0
    /\ batch_total_count = 0 /\ batch_completed_count = 0
    /\ batch_failed_items = <<>> /\ remaining_images = 0
    /\ batch_start_time = "zero" /\ batch_metrics_count = 0
    /\ batch_totals = ZeroTotals
    /\ cfg = [overwrite |-> FALSE, yaml |-> FALSE, metadata |-> FALSE]
    /\ reachable = TRUE
    /\ inp \in FnInputs /\ out = NoCall
    /\ clicks = 0
    /\ fs = [i \in Items |-> FreshFiles]
    /\ writeLog = {} /\ lastOp = NoOp /\ ops = 0

restVars == <<bw, singleVars, queue, uiVars, cfg, reachable, fsVars>>

CallGetNumberedPath ==
    /\ inp.fn = "numbered_path" /\ out = NoCall
    /\ out' = NumberedEntry(inp.existing)
    /\ UNCHANGED <<inp, restVars>>

NumberedLoop ==
    /\ out.fn = "numbered_path" /\ out.at = "loop"
    /\ out' = NumberedStep(inp.existing, out.counter)
    /\ UNCHANGED <<inp, restVars>>

\* The caller writes the file at the returned path (save_result,
\* save_yaml_sidecar) and a later call sees it.
WriteReturnedPath ==
    /\ out.fn = "numbered_path" /\ out.at = "done" /\ ~out.raised
    /\ Cardinality(inp.existing) <= MaxFiles
    /\ inp' = [inp EXCEPT !.existing = @ \cup {out.value}]
    /\ out' = NoCall
    /\ UNCHANGED restVars

CallAnalyzeImage ==
    /\ inp.fn = "analyze_image" /\ out = NoCall
    /\ out' = AnalyzeImage(inp.exists, inp.suffix, inp.chat)
    /\ UNCHANGED <<inp, restVars>>

CallValidateResponse ==
    /\ inp.fn = "validate_response" /\ out = NoCall
    /\ out' = ValidateResponse(inp.text)
    /\ UNCHANGED <<inp, restVars>>

ReadTokensPerSecond ==
    /\ inp.fn = "tokens_per_second" /\ out = NoCall
    /\ out' = [fn |-> "tokens_per_second", at |-> "done", raised |-> FALSE,
               value |-> TokensPerSecond(inp.eval_count, inp.eval_duration)]
    /\ UNCHANGED <<inp, restVars>>

CallSaveResultAt ==
    /\ inp.fn = "save_result" /\ out = NoCall
    /\ out' = SaveBegin(inp.files, inp.result, inp.overwrite)
    /\ UNCHANGED <<inp, restVars>>

CallSaveYamlSidecarAt ==
    /\ inp.fn = "save_yaml_sidecar" /\ out = NoCall
    /\ out' = SaveBegin(inp.files, inp.result, inp.overwrite)
    /\ UNCHANGED <<inp, restVars>>

SaveNumberedLoop ==
    /\ out.fn = "save" /\ out.at = "loop"
    /\ out' = SaveNumbered(out.files, out.counter)
    /\ UNCHANGED <<inp, restVars>>

SaveOpenAndWrite ==
    /\ out.fn = "save" /\ out.at = "write"
    /\ \E ok \in BOOLEAN : out' = SaveWrite(out.files, out.path, ok)
    /\ UNCHANGED <<inp, restVars>>

\* The batch starts with no text file in place.
StartBatchTexts ==
    /\ inp.fn = "batch_texts" /\ out = NoCall
    /\ out' = [fn |-> "batch_texts", at |-> "item", raised |-> FALSE,
               files |-> << >>, saved |-> << >>]
    /\ UNCHANGED <<inp, restVars>>

\* The save of the text of the next image of the batch, its result being
\* successful and valid: _on_batch_item_finished lines 1035-1057, and the
\* loop body of the CLI command lines 190-199.
SaveNextText ==
    /\ out.fn = "batch_texts" /\ Len(out.saved) < Len(inp.images)
    /\ LET k == Len(out.saved) + 1
           target == TextTarget(out.files, inp.images[k], inp.output_directory,
                                inp.overwrite)
       IN out' = [out EXCEPT !.files = WriteText(out.files, target, k),
                             !.saved = Append(@, target),
                             !.at = IF k = Len(inp.images) THEN "done" ELSE "item"]
    /\ UNCHANGED <<inp, restVars>>

CallGetVisionModels ==
    /\ inp.fn = "get_vision_models" /\ out = NoCall
    /\ out' = [fn |-> "get_vision_models", at |-> "done", raised |-> FALSE,
               value |-> GetVisionModels(inp)]
    /\ UNCHANGED <<inp, restVars>>

NextFn ==
    \/ CallAnalyzeImage
    \/ CallGetVisionModels
    \/ StartBatchTexts
    \/ SaveNextText
    \/ CallSaveResultAt
    \/ CallSaveYamlSidecarAt
    \/ SaveNumberedLoop
    \/ SaveOpenAndWrite
    \/ ReadTokensPerSecond
    \/ CallValidateResponse
    \/ CallGetNumberedPath
    \/ NumberedLoop
    \/ WriteReturnedPath

SpecFn == InitFn /\ [][NextFn]_vars

\* ================================================================ claims
Failed(o) == o \in {"fail", "raise"}

\* C1: for every item of a batch run analyze_image is invoked at most twice
\* and item_retry is emitted at most once, whatever the invocations return
\* or raise.
C1_AtMostOneRetry ==
    \A b \in Workers : bw[b].calls <= 2 /\ bw[b].retries <= 1

\* C2: whenever the first and the second attempt on an item both fail
\* (failure result or raise), exactly one item_finished is emitted for the
\* item, its result has success = FALSE, and its error text contains the
\* error of the first and the error of the second attempt.
C2_BothFailuresReported ==
    \A b \in Workers :
        LET w == bw[b] IN
        (w.pc = "top" /\ Len(w.outs) >= 2 /\ Failed(w.outs[1]) /\ Failed(w.outs[2]))
            => /\ Len(w.fin) = 1
               /\ ~w.fin[1].success
               /\ {1, 2} \subseteq w.fin[1].errs

\* C3 as stated (taken over the runs without a batch-level fault): stop()
\* called after the k-th item_finished was emitted and before item_started of
\* item k+1 is emitted ends the run with finished(k, _) and no item_started
\* after the k-th.
C3_StopBeforeNextItemStarted ==
    \A b \in Workers :
        LET w == bw[b] IN
        (w.pc = "end" /\ w.errEv = 0 /\ w.stopSeen.index >= 1
                      /\ w.stopSeen.pc \in {"top", "emit_start"})
            => /\ w.bfEv = <<w.bfEv[1]>>
               /\ w.bfEv[1][1] = w.stopSeen.index
               /\ w.nStarted = w.stopSeen.index

\* C3 amended: stop() called after the k-th item_finished was emitted and
\* before the worker evaluates the loop-top cancellation check of item k+1
\* ends the run with finished(k, _) and no item_started after the k-th
\* (k = 0: stop() before the first check).
C3_StopBeforeLoopTopCheck ==
    \A b \in Workers :
        LET w == bw[b] IN
        (w.pc = "end" /\ w.stopSeen.pc \in {"begin", "top"})
            => /\ Len(w.bfEv) = 1
               /\ w.bfEv[1][1] = w.stopSeen.index
               /\ w.nStarted = w.stopSeen.index

C3_Witness ==
    \E b \in Workers :
        LET w == bw[b] IN
        /\ w.pc = "end" /\ w.stopSeen.pc = "top" /\ w.stopSeen.index = 1
        /\ Len(w.image_paths) >= 2
        /\ w.bfEv[1][1] = 1 /\ w.nStarted = 1

\* C9: finished is emitted exactly once per run, as the last event, and in
\* every run (natural end, cancellation, batch-level fault) its
\* processed_count is the number of item_finished emissions of the run and
\* its success_count the number of those with success = TRUE.
C9_FinishedCountsItemFinished ==
    \A b \in Workers :
        LET w == bw[b] IN
        /\ Len(w.bfEv) <= 1
        /\ w.bfEv # <<>> => (w.pc = "end" /\ w.lastEmitted = "finished")
        /\ w.pc = "end" => (Len(w.bfEv) = 1 /\ w.bfEv[1] = <<w.nFin, w.nFinOK>>)

\* C10: every finished(processed_count, success_count) of a batch of N items
\* has processed_count <= N and success_count <= processed_count, in
\* cancelled runs and in runs ended by a batch-level fault too.
C10_FinishedCountsBounded ==
    \A b \in Workers :
        \A k \in 1..Len(bw[b].bfEv) :
            /\ bw[b].bfEv[k][1] <= Len(bw[b].image_paths)
            /\ bw[b].bfEv[k][2] <= bw[b].bfEv[k][1]

C10_Witness ==
    \E b \in Workers :
        LET w == bw[b] IN
        /\ w.pc = "end" /\ w.should_stop /\ w.errEv = 0
        /\ Len(w.image_paths) >= 2
        /\ w.bfEv = <<(<<1, 1>>)>>

\* C4: at every moment at most one inference call is in flight in the whole
\* application, and no single-image worker runs while a batch worker runs.
C4_OneInferenceAtATime ==
    /\ Cardinality({b \in Workers : InFlight(bw[b])})
         + Cardinality({k \in 1..Len(sw) : sw[k].pc = "inflight"}) <= 1
    /\ Cardinality({b \in Workers : IsRunning(bw[b])})
         + Cardinality({k \in 1..Len(sw) : sw[k].pc = "inflight"}) <= 1

\* C5: in every batch, the retry-failed batch included, completed_count never
\* exceeds total_count, so the factor total - completed of the ETA is never
\* negative.
C5_CompletedWithinTotal ==
    /\ batch_completed_count <= batch_total_count
    /\ remaining_images >= 0

\* C6: in the GUI flows the sidecar document goes to a .yml path derived
\* from the image and the sidecar operation never writes to the image file's
\* own path.
C6_SidecarGoesToYml ==
    \A w \in writeLog : w.op = "sidecar" => w.target \in {"yml", "yml_n"}

\* C7: each of the three persistence operations, called with a successful
\* result whose text fails the validator, raises a validation error and
\* modifies no file.
C7_InvalidTextBlocksEveryOperation ==
    (lastOp.op \in {"text", "sidecar", "metadata"} /\ lastOp.success /\ ~lastOp.valid)
        => (lastOp.raised = "validation" /\ ~lastOp.changed)

\* C8: no file write (text, sidecar, backup copy, image metadata) is ever
\* made on behalf of a result with success = FALSE, whichever operation or
\* flow is handed the result.
C8_NoArtifactForFailedResult ==
    /\ \A w \in writeLog : w.success
    /\ ~lastOp.success => ~lastOp.changed

C8_Witness ==
    /\ lastOp.op = "text" /\ ~lastOp.success /\ lastOp.valid
    /\ lastOp.raised = "validation"
    /\ writeLog # {}

\* C11: a batch-level fault makes the run emit error exactly once, and that
\* emission is the terminal event of the run: nothing (no item_started,
\* item_retry, item_finished, finished) is emitted after it.
C11_ErrorIsTerminalEvent ==
    \A b \in Workers :
        LET w == bw[b] IN
        /\ w.errEv <= 1
        /\ w.errEv = 1 => w.lastEmitted = "error"
        /\ (w.pc = "end" /\ w.errEv = 0) => w.lastEmitted = "finished"

\* C12: in a run where stop() is never called and no batch-level fault
\* occurs, whatever the invocations return or raise, run() terminates, every
\* item of the list got item_started and item_finished, and finished reports
\* processed_count = N.
NoStopNoFault ==
    \A b \in Workers :
        ~bw[b].should_stop /\ bw[b].pc # "fault" /\ bw[b].errEv = 0

RunComplete ==
    \A b \in Workers :
        LET w == bw[b]
            N == Len(w.image_paths)
        IN /\ w.pc = "end"
           /\ w.nStarted = N /\ w.nFin = N
           /\ Len(w.bfEv) = 1 /\ w.bfEv[1][1] = N

C12_ItemFailuresNeverAbort == ([]NoStopNoFault) => <>RunComplete

C12_Witness ==
    \E b \in Workers :
        LET w == bw[b] IN
        /\ w.pc = "end" /\ ~w.should_stop /\ w.errEv = 0
        /\ Len(w.image_paths) >= 2
        /\ w.nFin = Len(w.image_paths) /\ w.nFinOK < w.nFin /\ w.nFinOK > 0
        /\ w.bfEv = <<(<<w.nFin, w.nFinOK>>)>>

\* C13: the item events of a run alternate item_started, item_finished in
\* list order with item_started indices 1, 2, 3, ...; between the two at most
\* one item_retry is emitted; every started item of a run that ends without
\* a batch-level fault has its item_finished.
ItemEvents ==
    SelectSeq(queue, LAMBDA e : e.type \in {"item_started", "item_finished"})

C13_EventsInItemOrder ==
    /\ \A k \in 1..Len(ItemEvents) :
          IF k % 2 = 1
          THEN /\ ItemEvents[k].type = "item_started"
               /\ ItemEvents[k].a = (k + 1) \div 2
               /\ ItemEvents[k].res.item = bw[1].image_paths[(k + 1) \div 2]
          ELSE /\ ItemEvents[k].type = "item_finished"
               /\ ItemEvents[k].res.item = ItemEvents[k - 1].res.item
    /\ \A b \in Workers :
          LET w == bw[b] IN
          /\ w.retries <= 1
          /\ Len(w.fin) <= 1
          /\ (w.pc = "end" /\ w.errEv = 0) => Len(ItemEvents) % 2 = 0

\* C14: a stop() that arrives while an analyze_image invocation of item k+1
\* is in flight does not cut the item short: a failed first attempt is still
\* retried, the item gets its item_finished and is counted, and the run ends
\* at the next loop-top check with finished(k+1, _).
StoppedInFlight(w) == w.stopSeen.pc \in {"call1", "call2", "call3"}

C14_StopDoesNotInterruptItem ==
    \A b \in Workers :
        LET w == bw[b]
            k == w.stopSeen.index
        IN StoppedInFlight(w) =>
            /\ w.pc \in {"call1", "call2", "call3", "top", "after", "end"}
            /\ InFlight(w) => w.index = k
            /\ ~InFlight(w) => (w.index = k + 1 /\ w.nFin = k + 1
                                 /\ w.processed = k + 1 /\ w.nStarted = k + 1)
            /\ (w.pc = "top" /\ w.stopSeen.pc = "call1" /\ Failed(w.outs[1]))
                   => Len(w.outs) >= 2
            /\ w.pc = "end" => (Len(w.bfEv) = 1 /\ w.bfEv[1][1] = k + 1)

C14_Witness ==
    \E b \in Workers :
        LET w == bw[b] IN
        /\ w.pc = "top" /\ w.stopSeen = [pc |-> "call1", index |-> 0]
        /\ Len(w.image_paths) >= 2
        /\ Len(w.outs) = 2 /\ Failed(w.outs[1])
        /\ Len(w.fin) = 1 /\ w.processed = 1

\* C15: a worker created by _retry_failed_items runs over exactly the paths
\* of the failed-items list, in its order; and when the first item_started of
\* that worker is about to be handled, the failed-items list is empty,
\* completed_count is 0, the start time is a fresh reading and the metrics
\* count (with it the metric sums) is 0.
FirstRetryItemPending ==
    /\ queue # <<>>
    /\ Head(queue).type = "item_started" /\ Head(queue).retry /\ Head(queue).a = 1

RetryBatchStartsFresh ==
    FirstRetryItemPending =>
        /\ batch_failed_items = <<>>
        /\ batch_completed_count = 0
        /\ batch_start_time = "now"
        /\ batch_metrics_count = 0 /\ batch_totals = ZeroTotals

RetryListIsFailedList ==
    \A k \in 1..Len(bw') :
        (bw'[k].retry /\ bw'[k].pc = "begin" /\ \A j \in 1..Len(bw) : bw[j] # bw'[k])
            => bw'[k].image_paths = batch_failed_items

C15_RetryBatchIsNewBatch == []RetryBatchStartsFresh /\ [][RetryListIsFailedList]_vars

\* C19: with a failing connectivity probe no batch item is started and no
\* analyze_image call is issued, neither by a GUI batch nor by the loop of the
\* CLI analyze command.
C19_NoBatchWithoutConnection ==
    ~TestConnection =>
        /\ \A b \in Workers : bw[b].nStarted = 0 /\ bw[b].calls = 0
        /\ lastOp.op # "cli"

\* C17: write_to_image_metadata with backup enabled never overwrites an
\* existing .bak, creates a missing .bak from the content the image has
\* before the call, and leaves no image it has written without a .bak; so the
\* .bak of an image keeps the content from before the first such write.
MetadataCallWithBackup(i) ==
    /\ ops' # ops
    /\ lastOp'.op = "metadata" /\ lastOp'.backup /\ lastOp'.item = i

BackupDiscipline ==
    \A i \in Items :
        /\ fs[i].bak # "none" => fs'[i].bak = fs[i].bak
        /\ (MetadataCallWithBackup(i) /\ lastOp'.changed) => fs'[i].bak # "none"
        /\ (MetadataCallWithBackup(i) /\ fs[i].bak = "none" /\ fs'[i].bak # "none")
               => fs'[i].bak = fs[i].img

C17_BackupKeepsOriginal == [][BackupDiscipline]_vars

C17_Witness ==
    /\ lastOp.op = "metadata" /\ lastOp.backup /\ lastOp.raised = "none"
    /\ fs[lastOp.item].img = "image_meta" /\ fs[lastOp.item].bak = "image"
    /\ \E v \in BOOLEAN :
          {[op |-> "metadata", target |-> "img", item |-> lastOp.item,
            success |-> TRUE, valid |-> v],
           [op |-> "metadata", target |-> "img", item |-> lastOp.item,
            success |-> TRUE, valid |-> ~v]} \subseteq writeLog

\* C16: _get_numbered_path returns P when P does not exist, otherwise
\* {stem}_{N}{ext} for the smallest N in 1..9999 whose file does not exist;
\* the path it returns does not exist; with P and _1 .. _9999 all existing it
\* raises.
C16_NumberedPathIsSmallestFree ==
    (out.fn = "numbered_path" /\ out.at = "done") =>
        LET E == inp.existing
            Free == {n \in 1..NumberLimit : n \notin E}
        IN IF 0 \notin E THEN ~out.raised /\ out.value = 0
           ELSE IF Free # {}
                THEN /\ ~out.raised
                     /\ out.value \in Free
                     /\ \A n \in Free : out.value <= n
                ELSE out.raised

C16_Witness ==
    /\ out.fn = "numbered_path" /\ out.at = "done" /\ ~out.raised
    /\ {0, 1} \subseteq inp.existing
    /\ out.value = 2

\* C18: analyze_image never raises; for a missing file or an unsupported
\* suffix it returns success = FALSE with a non-empty error and issues no
\* network call, the missing file being reported in preference to the
\* suffix; a network call that fails in any way gives success = FALSE with a
\* non-empty error.
C18_AnalyzeImageReportsFailures ==
    out.fn = "analyze_image" =>
        /\ ~out.raised
        /\ (~inp.exists \/ LowerSuffix(inp.suffix) \notin SUPPORTED_FORMATS)
              => (~out.success /\ out.error # "" /\ ~out.called)
        /\ ~inp.exists => out.error = "Image file not found"
        /\ (out.called /\ inp.chat # "answer") => (~out.success /\ out.error # "")
        /\ out.success => (out.called /\ inp.chat = "answer")

C18_Witness ==
    /\ out.fn = "analyze_image"
    /\ ~inp.exists /\ inp.suffix = ".txt"
    /\ ~out.success /\ out.error = "Image file not found" /\ ~out.called

\* The rejection conditions of the validator, one definition each.
EmptyOrBlank(s) == Len(s) = 0 \/ Blank(s)

TooShort(s) == Len(strip(s)) < 20

TooManyWords(s) == Cardinality(WordStarts(s)) > 10000

ShortWordsOnAverage(s) ==
    /\ MeaningfulWords(s) # {}
    /\ Cardinality(MeaningfulChars(s)) < 2 * Cardinality(MeaningfulWords(s))

FewNormalChars(s) == 10 * Cardinality(NormalChars(s)) < 7 * Len(s)

Repetitive(s) ==
    /\ Cardinality(WordStarts(s)) >= 10
    /\ 10 * Cardinality(UniqueWords(s)) < 3 * Cardinality(WordStarts(s))

\* C20 as stated: validate_response accepts a text if and only if it is not
\* empty or blank, its trimmed length is at least 20, it has at most 10000
\* words, its words longer than one character average at least 2.0
\* characters, at least 0.7 of the characters of the text are alphanumeric
\* or blank, and it has fewer than 10 words or at least 0.3 distinct
\* lowercased words per word.
C20_AcceptsIffNoRejectionHolds ==
    out.fn = "validate_response" =>
        (out.valid <=>
            ~ \/ EmptyOrBlank(inp.text)
              \/ TooShort(inp.text)
              \/ TooManyWords(inp.text)
              \/ ShortWordsOnAverage(inp.text)
              \/ FewNormalChars(inp.text)
              \/ Repetitive(inp.text))

\* C20 amended: the same, the fraction of alphanumeric-or-blank characters
\* being taken over the trimmed text; "abcd" is rejected as too short, a
\* text of 10001 words as too long, and "aa bb cc dd ee ff gg hh ii jj" is
\* accepted.
C20_AcceptsIffNoRejectionOfTrimmedText ==
    out.fn = "validate_response" =>
        /\ out.valid <=>
              ~ \/ EmptyOrBlank(inp.text)
                \/ TooShort(inp.text)
                \/ TooManyWords(inp.text)
                \/ ShortWordsOnAverage(inp.text)
                \/ FewNormalChars(strip(inp.text))
                \/ Repetitive(inp.text)
        /\ out.valid <=> out.reason = ""
        /\ inp.text = Abcd => out.reason = "Response too short"
        /\ Cardinality(WordStarts(inp.text)) = 10001 => out.reason = "Response too long"
        /\ inp.text = TenWords => out.valid

\* A text padded with blanks whose trimmed part has too few alphanumeric or
\* blank characters although the padded text has enough of them.
C20_Witness ==
    /\ out.fn = "validate_response"
    /\ ~out.valid /\ out.reason = "Response contains excessive special characters"
    /\ ~FewNormalChars(inp.text)
    /\ FewNormalChars(strip(inp.text))

\* The text "x x x x x x x x x x".
TenTimesX == MakeText(0, << Word(<<"x">>, 10) >>, 0)

\* C21 as stated: validate_response rejects "x x x x x x x x x x" and the
\* reason it reports is the repetition rule.
C21_TenTimesXRejectedForRepetition ==
    (out.fn = "validate_response" /\ inp.text = TenTimesX) =>
        (~out.valid /\ out.reason = "Response contains excessive repetition")

\* C21 amended: validate_response rejects "x x x x x x x x x x", whose
\* distinct/total word ratio 0.1 is below 0.3, and the reason it reports is
\* the minimum length rule, its 19 characters being fewer than 20.
C21_TenTimesXRejectedAsTooShort ==
    (out.fn = "validate_response" /\ inp.text = TenTimesX) =>
        /\ ~out.valid
        /\ out.reason = "Response too short"
        /\ Len(inp.text) = 19
        /\ Repetitive(inp.text)

C21_Witness ==
    /\ out.fn = "validate_response" /\ inp.text = TenTimesX
    /\ ~out.valid /\ out.reason # ""

\* The GUI thread handles an item_finished delivery.
ItemFinishedHandled ==
    queue # <<>> /\ Head(queue).type = "item_finished" /\ queue' = Tail(queue)

ElapsedTimes == {1, 10}

\* The estimate shown by the handler against (elapsed / N) * (T - N) for the
\* N-th finished item of a batch of T, elapsed being measured from the
\* timestamp taken by _on_batch_started.
EtaAsClaimed ==
    LET N == Head(queue).a
        T == Head(queue).b
    IN /\ batch_start_time = "now"
       /\ \A e \in ElapsedTimes :
            LET eta == UpdateBatchProgressWithEta(batch_completed_count',
                                                  batch_total_count, e)
            IN eta.shown /\ eta.num * N = e * (T - N) * eta.den
       /\ remaining_images' = T - N

\* C22: the ETA shown after N of T items have completed is
\* (elapsed / N) * (T - N), elapsed being measured from the timestamp taken
\* at batch start (2 of 10 after 10 s gives 40 s); it is recomputed at every
\* ItemFinished, and none is computed while N = 0.
C22_EtaFromBatchStart ==
    [][ /\ ItemFinishedHandled => EtaAsClaimed
        /\ ~UpdateBatchProgressWithEta(0, batch_total_count, 10).shown
        /\ LET eta == UpdateBatchProgressWithEta(2, 10, 10)
           IN eta.shown /\ eta.num = 40 * eta.den ]_vars

\* value = tokens / (duration_ns / 1e9), as value * duration_ns = tokens * 1e9
\* on the reduced fractions.
IsTokenRate(value, tokens, duration_ns) ==
    LET seconds == Fraction(duration_ns, NanosPerSecond)
    IN value.some /\ value.num * seconds.num = tokens * seconds.den * value.den

\* C23 as stated: tokens_per_second is response_tokens /
\* (response_duration_ns / 1e9) exactly when both counters are present, and
\* None exactly when at least one of them is absent.
C23_RateIffBothPresent ==
    out.fn = "tokens_per_second" =>
        LET c == inp.eval_count
            d == inp.eval_duration
        IN /\ (c.some /\ d.some) <=> out.value.some
           /\ (c.some /\ d.some /\ d.v # 0) => IsTokenRate(out.value, c.v, d.v)

\* C23 amended: tokens_per_second is response_tokens /
\* (response_duration_ns / 1e9) exactly when both counters are present and
\* not zero (100 tokens over 2_000_000_000 ns give 50), and None exactly
\* when at least one of them is absent or zero; an absent counter is never
\* replaced by a number.
C23_RateIffBothPresentAndNonZero ==
    out.fn = "tokens_per_second" =>
        LET c == inp.eval_count
            d == inp.eval_duration
        IN /\ (c.some /\ c.v # 0 /\ d.some /\ d.v # 0) <=> out.value.some
           /\ out.value.some => IsTokenRate(out.value, c.v, d.v)
           /\ (c = Some(100) /\ d = Some(2000000000))
                 => (out.value.some /\ out.value.num = 50 * out.value.den)

C23_Witness ==
    /\ out.fn = "tokens_per_second"
    /\ inp.eval_count = Some(0) /\ inp.eval_duration = Some(1000000000)
    /\ ~out.value.some

\* The effect on the aggregator of the item_finished delivery of this step.
AggregatorStep ==
    (ops' = ops + 1 /\ inp'.fn = "item_finished") =>
        LET report == inp'.report
            counted == batch_metrics_count' # batch_metrics_count
        IN /\ ~inp'.success =>
                (batch_metrics_count' = batch_metrics_count /\ batch_totals' = batch_totals)
           /\ ~Truthy(report["eval_count"]) => ~counted
           /\ ~counted => batch_totals' = batch_totals
           /\ counted =>
                /\ batch_metrics_count' = batch_metrics_count + 1
                /\ \A f \in MetricFields :
                     /\ report[f].some
                     /\ batch_totals'[f] = batch_totals[f] + report[f].v

\* C24: an item that reported no token count changes no sum and no count, a
\* failed item neither; an item that is counted adds a counter it reported
\* to every running sum, never a zero for a missing counter.
C24_SumsOverCountedItems == [][AggregatorStep]_vars

\* The artifact writes (text, sidecar, embedded metadata; not the backup
\* copy) that the save block makes for a result on the files f.
ArtifactWrites(f, result) ==
    {e \in GuiSave(f, result, cfg).log : e.op \in {"text", "sidecar", "metadata"}}

\* The effect on the failed-items list of the item_finished delivery handled
\* in this step.
FailedListStep ==
    (ops' = ops + 1 /\ lastOp'.op = "gui_batch") =>
        LET result == [item |-> lastOp'.item, success |-> lastOp'.success,
                       valid |-> lastOp'.valid, errs |-> {}]
            failed == \/ ~result.success
                      \/ ArtifactWrites(fs[result.item], result) = {}
        IN batch_failed_items' = IF failed
                                 THEN Append(batch_failed_items, result.item)
                                 ELSE batch_failed_items

\* C25: handling the ItemFinished of an item appends the item to the
\* failed-items list, once, if and only if its result has success = FALSE
\* or none of the requested artifacts was saved; an item with a saved
\* artifact is not appended, whatever the other artifact kinds raised.
C25_FailedIffNothingSaved == [][FailedListStep]_vars

\* A result whose text is rejected by the validator while the embedded
\* metadata is written: the item is not in the failed-items list.
C25_Witness ==
    /\ lastOp.op = "gui_batch" /\ lastOp.success /\ ~lastOp.valid
    /\ cfg.metadata /\ fs[lastOp.item].img = "image_meta" /\ ~fs[lastOp.item].txt
    /\ batch_failed_items = <<>>

\* C26: when the GUI thread is about to handle BatchFinished(processed,
\* successful), processed - successful equals the number of entries of the
\* failed-items list, so the summary reports failures exactly when the list
\* it shows and offers for retry is not empty.
C26_FailedCountIsFailedListLength ==
    (queue # <<>> /\ Head(queue).type = "finished") =>
        LET failed == Head(queue).a - Head(queue).b
        IN /\ failed = Len(batch_failed_items)
           /\ (failed > 0) <=> (batch_failed_items # <<>>)

\* C27: with overwrite = FALSE a finished save_result or save_yaml_sidecar
\* has left every file that existed at the call with its content; it either
\* failed or wrote the artifact to a path that did not exist, which is a
\* numbered sibling {stem}_{N}{ext} when the output path existed.
C27_NoOverwriteKeepsExistingFiles ==
    (out.fn = "save" /\ out.at = "done" /\ ~inp.overwrite) =>
        /\ \A p \in DOMAIN inp.files :
             p \in DOMAIN out.files /\ out.files[p] = inp.files[p]
        /\ out.raised = "none" =>
             /\ out.path \notin DOMAIN inp.files
             /\ out.files[out.path] = "new"
             /\ DOMAIN out.files = DOMAIN inp.files \cup {out.path}
             /\ 0 \in DOMAIN inp.files => out.path \in 1..NumberLimit
        /\ out.raised # "none" => out.files = inp.files

C27_Witness ==
    /\ out.fn = "save" /\ out.at = "done" /\ ~inp.overwrite
    /\ DOMAIN inp.files = {0, 1}
    /\ out.raised = "none" /\ out.path = 2 /\ out.files[2] = "new"

\* C28: within one batch the texts of two distinct images are written to
\* distinct paths, and the text file of an item still holds that item's
\* text after the later items were saved.
C28_TextPathsOfABatchAreDistinct ==
    out.fn = "batch_texts" =>
        /\ \A i, j \in 1..Len(out.saved) : i # j => out.saved[i] # out.saved[j]
        /\ \A j \in 1..Len(out.saved) : out.files[out.saved[j]] = j

\* What a step does to the cancellation flag of each worker: a flag that is
\* set stays set, and a step that changes it is no step of run() (run()
\* stays where it is and emits nothing).
StopFlagStep ==
    \A b \in Workers :
        LET w == bw[b]
            w2 == bw'[b]
        IN /\ w.should_stop => w2.should_stop
           /\ w2.should_stop # w.should_stop =>
                /\ w2.pc = w.pc /\ w2.index = w.index
                /\ w2.lastEmitted = w.lastEmitted
                /\ queue' = queue

\* C29: the cancellation flag of a batch worker is false at creation, goes
\* from false to true only, stays true once set, and is written by stop()
\* only, never by run().
C29_StopFlagIsOneShot ==
    [][StopFlagStep /\ ~NewWorker(<< >>).should_stop]_vars

\* A worker stopped during an invocation that has run to its end with the
\* flag still set.
C29_Witness ==
    \E b \in Workers :
        /\ bw[b].should_stop /\ bw[b].pc = "end"
        /\ bw[b].stopSeen.pc = "call1" /\ bw[b].nFin > 0

\* The positions of the server's list whose name has one of the keywords as
\* a substring once lowered.
VisionPositions(models) ==
    {i \in 1..Len(models) :
        \E k \in 1..Len(vision_keywords) :
            Contains(vision_keywords[k], LowerName(models[i]))}

\* C30: get_vision_models never raises; it returns the empty list when the
\* listing fails, the whole list when no name matches, and otherwise exactly
\* the matching names in the server's order.
C30_VisionModelsFilteredInOrder ==
    out.fn = "get_vision_models" =>
        LET pos == VisionPositions(inp.models)
        IN /\ ~out.raised
           /\ ~inp.ok => out.value = << >>
           /\ (inp.ok /\ pos = {}) => out.value = inp.models
           /\ (inp.ok /\ pos # {}) =>
                /\ Len(out.value) = Cardinality(pos)
                /\ \A i \in pos :
                     out.value[Cardinality({j \in pos : j <= i})] = inp.models[i]

C30_Witness ==
    /\ out.fn = "get_vision_models" /\ inp.ok
    /\ inp.models = << <<"m", "i", "s", "t", "r", "a", "l">>, <<"L", "L", "a", "V", "a">> >>
    /\ out.value = << <<"L", "L", "a", "V", "a">> >>

====
